---- MODULE Spec2Model ----
(***************************************************************************)
(* The Worker of llm-chat-app: the request router (fetch), the chat        *)
(* handler (handleChatRequest) and the Cloudflare Access check             *)
(* (verifyAccessJwt).  The repository holds two variants of the handler:   *)
(*   "plain"     src/src/index.ts      verifyAccessJwt returns a Response  *)
(*                                     or undefined                        *)
(*   "identity"  src/unnamed/part_000  verifyAccessJwt returns             *)
(*                                     {response?, identity?} and the      *)
(*                                     identity is put in the messages     *)
(* One request is followed from its arrival to its response; the steps are *)
(* cut where the code awaits a collaborator (env.ASSETS.fetch, jwtVerify,  *)
(* request.json, env.AI.run), whose outcomes are chosen nondeterministic-  *)
(* ally.                                                                   *)
(***************************************************************************)
EXTENDS Integers, Sequences, FiniteSets, TLC

VARIABLES
    variant,        \* which of the two handler files is deployed
    env,            \* the bindings: POLICY_AUD, TEAM_DOMAIN
    request,        \* the inbound request: method, pathname, token, body
    pc,             \* where the request's handling stands
    calls,          \* the collaborators invoked for this request, in order
    auth,           \* what verifyAccessJwt returned: response and identity
    verdict,        \* how verifyAccessJwt came to return, and what it caught
    thrown,         \* what the try block of handleChatRequest caught
    sent,           \* the first argument pair of env.AI.run, once invoked
    assetsReturned, \* what env.ASSETS.fetch gave back
    aiReturned,     \* what env.AI.run gave back
    result          \* what fetch gave back to the runtime

vars == <<variant, env, request, pc, calls, auth, verdict, thrown, sent,
          assetsReturned, aiReturned, result>>

----------------------------------------------------------------------------
(* Bounds of the model *)

\* the longest messages array a request body carries
MaxMsgs == 2

----------------------------------------------------------------------------
(* Program constants *)

MODEL_ID == "@cf/meta/llama-3.3-70b-instruct-fp8-fast"

SYSTEM_PROMPT ==
    "You are a helpful, friendly assistant. Provide concise and accurate responses."

Variants == {"plain", "identity"}

----------------------------------------------------------------------------
(* Values *)

\* JavaScript's undefined / a header that is not there / a claim that is absent
Undefined == "<undefined>"

\* a string in a boolean position: undefined and "" are falsy
Truthy(s) == s # Undefined /\ s # ""

\* No Response object (the `response` of a successful verification, the
\* result of a request still in flight).
NoResponse == [kind |-> "none", status |-> 0, contentType |-> "", body |-> ""]

\* new Response(body, {status, headers})
Response(status, contentType, body) ==
    [kind |-> "response", status |-> status, contentType |-> contentType,
     body |-> body]

\* A promise that rejected: the exception leaves the function uncaught.
Exception(message) ==
    [kind |-> "exception", status |-> 0, contentType |-> "", body |-> message]

\* The content type the runtime gives a Response built from a string with no
\* headers of its own.
DefaultTextType == "text/plain;charset=UTF-8"

PlainText(r) == r.contentType \in {"text/plain", DefaultTextType}

\* Pathnames are sequences of characters, so that startsWith is computed.
Slash == <<"/">>
Api == <<"a", "p", "i">>
Chat == <<"c", "h", "a", "t">>
PathRoot == Slash
PathIndex == Slash \o <<"x">>
PathApiNoSlash == Slash \o Api
PathApiOnly == Slash \o Api \o Slash
PathChat == Slash \o Api \o Slash \o Chat
PathChatSlash == Slash \o Api \o Slash \o Chat \o Slash
PathChatMore == Slash \o Api \o Slash \o Chat \o <<"s">>
PathApiOther == Slash \o Api \o Slash \o <<"x">>
PathApix == Slash \o Api \o <<"x">> \o Slash \o Chat

Paths == {PathRoot, PathIndex, PathApiNoSlash, PathApiOnly, PathChat,
          PathChatSlash, PathChatMore, PathApiOther, PathApix}

Methods == {"POST", "GET"}

\* String.prototype.startsWith
StartsWith(s, prefix) ==
    /\ Len(s) >= Len(prefix)
    /\ SubSeq(s, 1, Len(prefix)) = prefix

API_PREFIX == Slash \o Api \o Slash
CHAT_PATH == PathChat

----------------------------------------------------------------------------
(* The request router's decision *)

\* fetch, "/api/" matched without its trailing slash: a plausible slip
Route_PrefixWithoutSlash(pathname, method) ==
    IF pathname = Slash \/ ~StartsWith(pathname, Slash \o Api)
    THEN "assets"
    ELSE IF pathname = CHAT_PATH
         THEN IF method = "POST" THEN "chat" ELSE "405"
         ELSE "404"

\* fetch, with every path but the chat endpoint handed to the assets
Route_AllButChatToAssets(pathname, method) ==
    IF pathname # CHAT_PATH
    THEN "assets"
    ELSE IF method = "POST" THEN "chat" ELSE "405"

\* fetch: which of its four return statements is taken
Route(pathname, method) ==
    IF pathname = Slash \/ ~StartsWith(pathname, API_PREFIX)
    THEN "assets"
    ELSE IF pathname = CHAT_PATH
         THEN IF method = "POST" THEN "chat" ELSE "405"
         ELSE "404"

MethodNotAllowed == Response(405, DefaultTextType, "Method not allowed")

NotFound == Response(404, DefaultTextType, "Not found")

----------------------------------------------------------------------------
(* The Access check *)

\* the values of the cf-access-jwt-assertion header: absent, empty, and
\* tokens named after what jwtVerify finds in them
Tokens == {Undefined, "", "tok.badsig", "tok.otheraud", "tok.valid"}

TeamDomains == {"https://team.cloudflareaccess.com", ""}

PolicyAuds == {"aud-1", "", Undefined}

Envs == [POLICY_AUD : PolicyAuds, TEAM_DOMAIN : TeamDomains]

\* a thrown value: an Error with its message, or something that is no Error
Error(message) == [isError |-> TRUE, message |-> message]
NotAnError == [isError |-> FALSE, message |-> ""]

NoIdentity == [present |-> FALSE, email |-> Undefined, sub |-> Undefined]

\* { email, sub } of a verified token's payload; either may be absent
Identities ==
    [present : {TRUE}, email : {Undefined, "alice@example.com"},
     sub : {Undefined, "sub-1"}]

MissingAudience == Response(403, "text/plain", "Missing required audience")

MissingJwt == Response(403, "text/plain", "Missing required CF Access JWT")

\* verifyAccessJwt's two guards, the header looked at before the audience
PreCheck_HeaderFirst(e, token) ==
    IF ~Truthy(token) THEN MissingJwt
    ELSE IF ~Truthy(e.POLICY_AUD) THEN MissingAudience
    ELSE NoResponse

\* verifyAccessJwt's two guards, the audience guard left out
PreCheck_NoAudienceGuard(e, token) ==
    IF ~Truthy(token) THEN MissingJwt ELSE NoResponse

\* verifyAccessJwt, up to the try block: the rejection it returns, or
\* NoResponse when it goes on to verify
PreCheck(e, token) ==
    IF ~Truthy(e.POLICY_AUD) THEN MissingAudience
    ELSE IF ~Truthy(token) THEN MissingJwt
    ELSE NoResponse

\* new URL(`${env.TEAM_DOMAIN}/cdn-cgi/access/certs`) throws a TypeError
\* unless TEAM_DOMAIN makes the string an absolute URL
CertsUrlParses(e) == e.TEAM_DOMAIN = "https://team.cloudflareaccess.com"

\* what awaiting jwtVerify(token, JWKS, {issuer, audience}) can give: a
\* payload, or a thrown value
JwtVerifyOutcomes(token) ==
    IF token = "tok.valid"
    THEN [ok : {TRUE}, error : {NotAnError}, identity : Identities]
         \cup [ok : {FALSE},
               error : {Error("Expected 200 OK from the JSON Web Key Set HTTP response"),
                        NotAnError},
               identity : {NoIdentity}]
    ELSE [ok : {FALSE},
          error : {IF token = "tok.badsig"
                   THEN Error("signature verification failed")
                   ELSE Error("unexpected \"aud\" claim value")},
          identity : {NoIdentity}]

\* the catch block of verifyAccessJwt, answering as the chat handler's own
\* catch block does
InvalidTokenResponse_Generic(error) ==
    Response(500, "application/json", "{\"error\":\"Failed to process request\"}")

\* the catch block of verifyAccessJwt
InvalidTokenResponse(error) ==
    LET message == IF error.isError THEN error.message
                   ELSE "Unknown verification error"
    IN  Response(403, "text/plain", "Invalid token: " \o message)

\* handleChatRequest, `if (authResponse)` never taken
AuthRejected_Never(a) == FALSE

\* handleChatRequest: `if (authResponse) return authResponse`
AuthRejected(a) == a.response.kind = "response"

\* part_000: who = identity.email || identity.sub || "authenticated user"
Who(identity) ==
    IF ~identity.present THEN Undefined
    ELSE IF Truthy(identity.email) THEN identity.email
    ELSE IF Truthy(identity.sub) THEN identity.sub
    ELSE "authenticated user"

----------------------------------------------------------------------------
(* The request body and the message list *)

Message(role, content) == [role |-> role, content |-> content]

\* a null where a ChatMessage should be: reading its role throws
NullMsg == Message("<null>", "<null>")

Msgs ==
    {Message("system", "Answer in French."), Message("system", SYSTEM_PROMPT),
     Message("user", "hi"), Message("user", SYSTEM_PROMPT),
     Message("assistant", "hello"), NullMsg}

MessageLists == UNION {[1..n -> Msgs] : n \in 0..MaxMsgs}

\* What the body's text parses to.  json: "invalid" (no JSON), "null",
\* "scalar" (a number or a string), "object".  messages (of an object):
\* "absent", "null", "string" or "array", the array's elements in items.
Body(json, messages, items) ==
    [json |-> json, messages |-> messages, items |-> items]

Bodies ==
    {Body("invalid", "absent", <<>>), Body("null", "absent", <<>>),
     Body("scalar", "absent", <<>>), Body("object", "absent", <<>>),
     Body("object", "null", <<>>), Body("object", "string", <<>>)}
    \cup {Body("object", "array", items) : items \in MessageLists}

\* const { messages = [] } = await request.json(): request.json() rejects
\* on text that is no JSON, destructuring null throws, and the default
\* applies only to a messages that is undefined
ParseMessages(body) ==
    IF body.json = "invalid"
    THEN [threw |-> TRUE, error |-> Error("Unexpected token in JSON"),
          kind |-> "array", items |-> <<>>]
    ELSE IF body.json = "null"
    THEN [threw |-> TRUE,
          error |-> Error("Cannot destructure property 'messages' of null"),
          kind |-> "array", items |-> <<>>]
    ELSE IF body.json = "scalar" \/ body.messages = "absent"
    THEN [threw |-> FALSE, error |-> NotAnError, kind |-> "array",
          items |-> <<>>]
    ELSE [threw |-> FALSE, error |-> NotAnError, kind |-> body.messages,
          items |-> body.items]

\* Array.prototype.some with msg => msg.role === "system": left to right,
\* stopping at the first hit; "threw" when an element read is null
RECURSIVE SomeSystem(_)
SomeSystem(items) ==
    IF items = <<>> THEN "false"
    ELSE IF Head(items) = NullMsg THEN "threw"
    ELSE IF Head(items).role = "system" THEN "true"
    ELSE SomeSystem(Tail(items))

\* messages.some(...): a messages that is no array has no some to call
HasSystem(kind, items) ==
    IF kind # "array" THEN "threw" ELSE SomeSystem(items)

DefaultSystemMessage == Message("system", SYSTEM_PROMPT)

\* the system prompt pushed to the end instead of unshifted to the front
WithSystemPrompt_Push(items) ==
    IF SomeSystem(items) = "false"
    THEN Append(items, DefaultSystemMessage)
    ELSE items

\* the system prompt added unless the FIRST message is a system message
WithSystemPrompt_FirstOnly(items) ==
    IF items # <<>> /\ Head(items).role = "system"
    THEN items
    ELSE <<DefaultSystemMessage>> \o items

\* if (!messages.some(...)) messages.unshift({role: "system", ...})
WithSystemPrompt(items) ==
    IF SomeSystem(items) = "false"
    THEN <<DefaultSystemMessage>> \o items
    ELSE items

IdentityMessage(who) ==
    Message("system", "Authenticated user identity: " \o who)

\* part_000: if (who) messages.unshift({role: "system", content: ...})
WithIdentity(items, who) ==
    IF Truthy(who) THEN <<IdentityMessage(who)>> \o items ELSE items

\* the message list handed to env.AI.run, by variant
BuildMessages(v, items, who) ==
    IF v = "identity"
    THEN WithIdentity(WithSystemPrompt(items), who)
    ELSE WithSystemPrompt(items)

NoCall == [model |-> "", messages |-> <<>>, max_tokens |-> 0]

\* the catch block of handleChatRequest, the error's message put in the body
ErrorResponder_Leaky(error) ==
    Response(500, "application/json",
             "{\"error\":\"" \o error.message \o "\"}")

\* the catch block of handleChatRequest
ErrorResponder(error) ==
    Response(500, "application/json",
             "{\"error\":\"Failed to process request\"}")

GenericError == ErrorResponder(NotAnError)

----------------------------------------------------------------------------
(* The collaborators' answers *)

AssetResponses ==
    {Response(200, "text/html", "<asset>"),
     Response(404, "text/html", "<no such asset>")}

AssetOutcomes == AssetResponses \cup {Exception("assets unavailable")}

AiResponses == {Response(200, "text/event-stream", "<stream>")}

AiErrors == {Error("inference upstream failed"), NotAnError}

Requests ==
    [method : Methods, pathname : Paths, token : Tokens, body : Bodies]

NoAuth == [response |-> NoResponse, identity |-> NoIdentity]

NothingThrown == [isError |-> FALSE, message |-> "<nothing thrown>"]

\* verifyAccessJwt has not run
NoVerdict == [at |-> "none", error |-> NothingThrown]

NoRequest ==
    [method |-> "", pathname |-> <<>>, token |-> Undefined,
     body |-> Body("invalid", "absent", <<>>)]

----------------------------------------------------------------------------
(* The state machine *)

Init ==
    /\ variant \in Variants
    /\ env \in Envs
    /\ request = NoRequest
    /\ pc = "idle"
    /\ calls = <<>>
    /\ auth = NoAuth
    /\ verdict = NoVerdict
    /\ thrown = NothingThrown
    /\ sent = NoCall
    /\ assetsReturned = NoResponse
    /\ aiReturned = NoResponse
    /\ result = NoResponse

\* The runtime hands a request to the Worker.  The Worker keeps nothing from
\* one request to the next, so one request is followed per behaviour.
Receive ==
    /\ pc = "idle"
    /\ request' \in Requests
    /\ pc' = "fetch"
    /\ calls' = <<>>
    /\ auth' = NoAuth
    /\ verdict' = NoVerdict
    /\ thrown' = NothingThrown
    /\ sent' = NoCall
    /\ assetsReturned' = NoResponse
    /\ aiReturned' = NoResponse
    /\ result' = NoResponse
    /\ UNCHANGED <<variant, env>>

\* fetch: the router
fetch ==
    /\ pc = "fetch"
    /\ LET r == Route(request.pathname, request.method)
       IN  /\ pc' = IF r = "assets" THEN "assets"
                    ELSE IF r = "chat" THEN "chat" ELSE "done"
           /\ calls' = IF r = "assets" THEN Append(calls, "ASSETS.fetch")
                       ELSE calls
           /\ result' = IF r = "405" THEN MethodNotAllowed
                        ELSE IF r = "404" THEN NotFound ELSE result
    /\ UNCHANGED <<variant, env, request, auth, verdict, thrown, sent,
                   assetsReturned, aiReturned>>

\* return env.ASSETS.fetch(request): its response, or its rejection, is
\* fetch's own
AssetsReturns ==
    /\ pc = "assets"
    /\ \E o \in AssetOutcomes :
          /\ assetsReturned' = o
          /\ result' = o
    /\ pc' = "done"
    /\ UNCHANGED <<variant, env, request, calls, auth, verdict, thrown, sent,
                   aiReturned>>

\* verifyAccessJwt, up to its await of jwtVerify
verifyAccessJwt ==
    /\ pc = "chat"
    /\ LET pre == PreCheck(env, request.token)
       IN  IF pre.kind = "response"
           THEN /\ auth' = [response |-> pre, identity |-> NoIdentity]
                /\ verdict' = [at |-> IF pre = MissingAudience THEN "audience"
                                      ELSE "header",
                               error |-> NothingThrown]
                /\ pc' = "authReturned"
                /\ UNCHANGED calls
           ELSE IF ~CertsUrlParses(env)
           THEN /\ auth' = [response |->
                               InvalidTokenResponse(Error("Invalid URL")),
                            identity |-> NoIdentity]
                /\ verdict' = [at |-> "failed", error |-> Error("Invalid URL")]
                /\ pc' = "authReturned"
                /\ UNCHANGED calls
           ELSE /\ calls' = calls \o <<"createRemoteJWKSet", "jwtVerify">>
                /\ pc' = "jwtVerify"
                /\ UNCHANGED <<auth, verdict>>
    /\ UNCHANGED <<variant, env, request, thrown, sent, assetsReturned,
                   aiReturned, result>>

\* verifyAccessJwt, from jwtVerify's answer to its return
JwtVerifyReturns ==
    /\ pc = "jwtVerify"
    /\ \E o \in JwtVerifyOutcomes(request.token) :
          IF o.ok
          THEN /\ auth' = [response |-> NoResponse,
                           identity |-> IF variant = "identity"
                                        THEN o.identity ELSE NoIdentity]
               /\ verdict' = [at |-> "ok", error |-> NothingThrown]
          ELSE /\ auth' = [response |-> InvalidTokenResponse(o.error),
                           identity |-> NoIdentity]
               /\ verdict' = [at |-> "failed", error |-> o.error]
    /\ pc' = "authReturned"
    /\ UNCHANGED <<variant, env, request, calls, thrown, sent,
                   assetsReturned, aiReturned, result>>

\* handleChatRequest, from verifyAccessJwt's return to its await of
\* request.json()
handleChatRequest ==
    /\ pc = "authReturned"
    /\ IF AuthRejected(auth)
       THEN /\ result' = auth.response
            /\ pc' = "done"
            /\ UNCHANGED calls
       ELSE /\ calls' = Append(calls, "request.json")
            /\ pc' = "json"
            /\ UNCHANGED result
    /\ UNCHANGED <<variant, env, request, auth, verdict, thrown, sent,
                   assetsReturned, aiReturned>>

\* handleChatRequest, from the parsed body to its await of env.AI.run, or
\* to its catch block
RequestJsonReturns ==
    /\ pc = "json"
    /\ LET parsed == ParseMessages(request.body)
           has == HasSystem(parsed.kind, parsed.items)
           caught == IF parsed.threw THEN parsed.error
                     ELSE Error("Cannot read properties of messages")
       IN  IF parsed.threw \/ has = "threw"
           THEN /\ thrown' = caught
                /\ result' = ErrorResponder(caught)
                /\ pc' = "done"
                /\ UNCHANGED <<calls, sent>>
           ELSE /\ sent' = [model |-> MODEL_ID,
                            messages |-> BuildMessages(variant, parsed.items,
                                                       Who(auth.identity)),
                            max_tokens |-> 1024]
                /\ calls' = Append(calls, "AI.run")
                /\ pc' = "ai"
                /\ UNCHANGED <<thrown, result>>
    /\ UNCHANGED <<variant, env, request, auth, verdict, assetsReturned,
                   aiReturned>>

\* handleChatRequest, from env.AI.run's answer to its return
AiRunReturns ==
    /\ pc = "ai"
    /\ \/ \E r \in AiResponses :
             /\ aiReturned' = r
             /\ result' = r
             /\ UNCHANGED thrown
       \/ \E e \in AiErrors :
             /\ aiReturned' = Exception(e.message)
             /\ thrown' = e
             /\ result' = ErrorResponder(e)
    /\ pc' = "done"
    /\ UNCHANGED <<variant, env, request, calls, auth, verdict, sent,
                   assetsReturned>>

Next ==
    \/ Receive
    \/ fetch
    \/ AssetsReturns
    \/ verifyAccessJwt
    \/ JwtVerifyReturns
    \/ handleChatRequest
    \/ RequestJsonReturns
    \/ AiRunReturns

Spec == Init /\ [][Next]_vars

----------------------------------------------------------------------------
(* The claims *)

Called(c) == \E i \in DOMAIN calls : calls[i] = c

ChatPost ==
    /\ pc # "idle"
    /\ request.pathname = PathChat
    /\ request.method = "POST"

\* the verifier rejected: no audience, no header, or a failed verification
Rejected == verdict.at \in {"audience", "header", "failed"}

\* the messages array the caller sent; a missing field is the empty list
CallerMessages ==
    IF request.body.json = "object" /\ request.body.messages = "array"
    THEN request.body.items
    ELSE <<>>

CallerHasSystem ==
    \E i \in DOMAIN CallerMessages : CallerMessages[i].role = "system"

\* how many messages of a list carry the default prompt as their content
DefaultCount(items) ==
    Cardinality({i \in DOMAIN items : items[i].content = SYSTEM_PROMPT})

\* email, else subject, else the generic marker
ExpectedWho ==
    IF auth.identity.email \notin {Undefined, ""} THEN auth.identity.email
    ELSE IF auth.identity.sub \notin {Undefined, ""} THEN auth.identity.sub
    ELSE "authenticated user"

FixedErrorBody == "{\"error\":\"Failed to process request\"}"

\* C1: env.AI.run is invoked only after the verifier returned success for
\* the request, and once the verifier has rejected, the rejection is the
\* response and neither request.json() nor env.AI.run is ever invoked.
C1_InferenceOnlyAfterAuth ==
    /\ Called("AI.run") =>
          /\ verdict.at = "ok"
          /\ calls = <<"createRemoteJWKSet", "jwtVerify", "request.json",
                       "AI.run">>
    /\ Called("request.json") => verdict.at = "ok"
    /\ Rejected =>
          /\ ~Called("request.json")
          /\ ~Called("AI.run")
          /\ pc \in {"authReturned", "done"}
          /\ pc = "done" => result = auth.response /\ result.status = 403

C1_Witness ==
    /\ pc = "done"
    /\ verdict.at = "failed"
    /\ request.token = "tok.otheraud"
    /\ result.status = 403
    /\ request.body = Body("object", "array", <<Message("user", "hi")>>)

\* C2: with POLICY_AUD empty or absent, every POST to /api/chat ends with
\* 403 "Missing required audience", whatever its header and body; the key
\* set is never built, the token never verified, the request never let in.
C2_MissingAudienceFailsClosed ==
    (ChatPost /\ env.POLICY_AUD \in {"", Undefined}) =>
        /\ ~Called("createRemoteJWKSet")
        /\ ~Called("jwtVerify")
        /\ ~Called("request.json")
        /\ ~Called("AI.run")
        /\ verdict.at \in {"none", "audience"}
        /\ pc \in {"fetch", "chat", "authReturned", "done"}
        /\ pc = "done" =>
              result = Response(403, "text/plain", "Missing required audience")

C2_Witness ==
    /\ pc = "done"
    /\ ChatPost
    /\ env.POLICY_AUD = Undefined
    /\ request.token = "tok.valid"
    /\ result.body = "Missing required audience"

\* C3 as stated: every POST to /api/chat without the assertion header ends
\* with 403 and the body "Missing required CF Access JWT".
C3_Original ==
    (ChatPost /\ request.token = Undefined /\ pc = "done") =>
        /\ result.status = 403
        /\ result.body = "Missing required CF Access JWT"

\* C3 as amended: every POST to /api/chat without the assertion header ends
\* with 403, whatever its body; the body is "Missing required CF Access JWT"
\* when POLICY_AUD is configured, and "Missing required audience" when it
\* is empty or absent.
C3_MissingHeader ==
    (ChatPost /\ request.token = Undefined) =>
        /\ ~Called("jwtVerify")
        /\ ~Called("request.json")
        /\ pc = "done" =>
              /\ result.kind = "response"
              /\ result.status = 403
              /\ PlainText(result)
              /\ result.body = IF env.POLICY_AUD \in {"", Undefined}
                               THEN "Missing required audience"
                               ELSE "Missing required CF Access JWT"

C3_Witness ==
    /\ pc = "done"
    /\ ChatPost
    /\ request.token = Undefined
    /\ env.POLICY_AUD = "aud-1"
    /\ request.body = Body("invalid", "absent", <<>>)
    /\ result.body = "Missing required CF Access JWT"

\* C4: a POST to /api/chat whose verification failed (jwtVerify threw, or
\* the key set's URL could not be built) ends with 403 plain text and the
\* body "Invalid token: <reason>", which is not empty and is not the
\* missing-credential message; it never ends with the generic 500.
C4_InvalidTokenDiagnostic ==
    (verdict.at = "failed" /\ pc = "done") =>
        /\ result.kind = "response"
        /\ result.status = 403
        /\ result.contentType = "text/plain"
        /\ result.body = "Invalid token: " \o
              (IF verdict.error.isError THEN verdict.error.message
               ELSE "Unknown verification error")
        /\ result.body # ""
        /\ result.body # "Missing required CF Access JWT"
        /\ result.status # 500
        /\ result.body # FixedErrorBody
        /\ thrown = NothingThrown

C4_Witness ==
    /\ pc = "done"
    /\ verdict.at = "failed"
    /\ request.token = "tok.badsig"
    /\ result.body = "Invalid token: signature verification failed"

\* C5: the router takes exactly one of four outcomes, decided by path and
\* method: "/" and every path not starting with "/api/" go to the assets;
\* POST /api/chat goes to the chat handler; any other method on /api/chat
\* gets 405 plain text; every other path under "/api/" gets 404 plain text.
C5_RouterTotal ==
    (pc \notin {"idle", "fetch"}) =>
        LET p == request.pathname
            toAssets == calls # <<>> /\ calls[1] = "ASSETS.fetch"
            toChat == \/ pc \in {"chat", "jwtVerify", "authReturned", "json", "ai"}
                      \/ verdict.at # "none"
            is405 == pc = "done" /\ calls = <<>> /\ result.status = 405
                     /\ PlainText(result)
            is404 == pc = "done" /\ calls = <<>> /\ result.status = 404
                     /\ PlainText(result)
            taken == {o \in {"assets", "chat", "405", "404"} :
                        \/ o = "assets" /\ toAssets
                        \/ o = "chat" /\ toChat
                        \/ o = "405" /\ is405
                        \/ o = "404" /\ is404}
            apiPath == Len(p) >= 5 /\ SubSeq(p, 1, 5) = <<"/", "a", "p", "i", "/">>
        IN  taken =
              IF p = <<"/">> \/ ~apiPath THEN {"assets"}
              ELSE IF p = PathChat
                   THEN IF request.method = "POST" THEN {"chat"} ELSE {"405"}
                   ELSE {"404"}

C5_Witness ==
    /\ pc = "done"
    /\ request.pathname = PathChat
    /\ request.method = "GET"
    /\ result = Response(405, DefaultTextType, "Method not allowed")

\* C6 as stated: for every path other than /api/chat, with any method, the
\* response is what env.ASSETS.fetch returned for the request.
C6_Original ==
    (pc = "done" /\ request.pathname # PathChat) =>
        /\ Called("ASSETS.fetch")
        /\ result = assetsReturned

\* C6 as amended: for every path that is "/" or does not start with
\* "/api/", with any method, the response is what env.ASSETS.fetch returned
\* for the request; a path under "/api/" other than /api/chat is not handed
\* to the assets and gets 404.
C6_AssetPassThrough ==
    (pc = "done") =>
        LET p == request.pathname
            apiPath == Len(p) >= 5 /\ SubSeq(p, 1, 5) = <<"/", "a", "p", "i", "/">>
        IN  /\ (p = <<"/">> \/ ~apiPath) =>
                  /\ calls = <<"ASSETS.fetch">>
                  /\ assetsReturned \in AssetOutcomes
                  /\ result = assetsReturned
            /\ (apiPath /\ p # PathChat) =>
                  /\ ~Called("ASSETS.fetch")
                  /\ result.status = 404

C6_Witness ==
    /\ pc = "done"
    /\ request.pathname = PathApiNoSlash
    /\ request.method = "POST"
    /\ result = assetsReturned
    /\ result = Response(200, "text/html", "<asset>")

\* C7 as stated: when the caller's messages hold no system entry, the list
\* passed to env.AI.run is the default system message followed by the
\* caller's messages, and nothing else.
C7_Original ==
    (Called("AI.run") /\ ~CallerHasSystem) =>
        sent.messages = <<Message("system", SYSTEM_PROMPT)>> \o CallerMessages

\* C7 as amended: when the caller's messages hold no system entry (a missing
\* messages field being the empty list), the list passed to env.AI.run holds
\* exactly one default system message, directly followed by the caller's
\* messages in their order; in the identity-propagating variant one system
\* message naming the authenticated identity (email, else subject, else
\* "authenticated user") comes before it, and nothing else is added.
C7_DefaultPromptPrepended ==
    (Called("AI.run") /\ ~CallerHasSystem) =>
        /\ sent.model = MODEL_ID
        /\ sent.messages =
              (IF variant = "identity"
               THEN <<Message("system",
                              "Authenticated user identity: " \o ExpectedWho)>>
               ELSE <<>>)
              \o <<Message("system", SYSTEM_PROMPT)>> \o CallerMessages
        /\ DefaultCount(sent.messages) = 1 + DefaultCount(CallerMessages)

C7_Witness ==
    /\ Called("AI.run")
    /\ variant = "identity"
    /\ request.body.items = <<Message("user", "hi"), Message("assistant", "hello")>>
    /\ Len(sent.messages) = 4
    /\ sent.messages[2] = Message("system", SYSTEM_PROMPT)

\* C8: when the caller's messages hold a system entry at any position, the
\* list passed to env.AI.run carries no default-prompt message the caller
\* did not send; and building the list again from any list that was passed
\* adds no default-prompt message.
C8_NoDuplicateDefault ==
    Called("AI.run") =>
        /\ CallerHasSystem =>
              /\ DefaultCount(sent.messages) = DefaultCount(CallerMessages)
              /\ sent.messages =
                    (IF variant = "identity"
                     THEN <<Message("system",
                              "Authenticated user identity: " \o ExpectedWho)>>
                     ELSE <<>>) \o CallerMessages
        /\ DefaultCount(BuildMessages(variant, sent.messages, Who(auth.identity)))
              = DefaultCount(sent.messages)

C8_Witness ==
    /\ Called("AI.run")
    /\ variant = "plain"
    /\ request.body.items =
          <<Message("user", "hi"), Message("system", "Answer in French.")>>
    /\ sent.messages = request.body.items

\* C9: once the caller is authenticated, whatever is thrown while the body
\* is parsed or the inference backend invoked ends in status 500, content
\* type application/json and the body {"error":"Failed to process request"},
\* the same for every failure.
C9_GenericError ==
    (pc = "done" /\ verdict.at = "ok") =>
        /\ (thrown # NothingThrown) =>
              result = Response(500, "application/json", FixedErrorBody)
        /\ (\/ request.body.json \in {"invalid", "null"}
            \/ request.body.messages \in {"null", "string"}
            \/ aiReturned.kind = "exception") =>
              /\ thrown # NothingThrown
              /\ result = Response(500, "application/json", FixedErrorBody)

C9_Witness ==
    /\ pc = "done"
    /\ verdict.at = "ok"
    /\ aiReturned.kind = "exception"
    /\ thrown = Error("inference upstream failed")
    /\ result.status = 500

\* C10: every request ends with a response: no exception leaves fetch, and
\* a failure that is no authentication or routing rejection ends in the
\* generic 500.
C10_NothingPropagates ==
    (pc = "done") =>
        /\ result.kind = "response"
        /\ (assetsReturned.kind = "exception" \/ thrown # NothingThrown) =>
              result = Response(500, "application/json", FixedErrorBody)

====
